---- MODULE Spec2Model ----
(***************************************************************************)
(* Adapter and prediction-head persistence of adapter-transformers         *)
(* (src/transformers/adapter_model_mixin.py): WeightsLoader, AdapterLoader,*)
(* PredictionHeadLoader and the two model mixins.                          *)
(*                                                                         *)
(* Parameter names are TLA+ strings; Python's `in`, str.startswith and     *)
(* str.replace are computed character by character.  A file is a sequence: *)
(* << >> when it does not exist, <<content>> when it does.  Python's None  *)
(* is the string "None".  Every path handed to a save is a directory whose *)
(* parent exists, so mkdir and the isdir assertions never fail.            *)
(***************************************************************************)
EXTENDS Naturals, Sequences, FiniteSets, TLC

VARIABLES
    cls,          \* cls[m]: the class of model m
    adapters,     \* adapters[m]: model.config.adapters, name -> [type, config]
    heads,        \* heads[m]: model.config.prediction_heads, name -> config
    sd,           \* sd[m]: model.state_dict(), parameter name -> value
    fs,           \* fs[d]: the files of directory d
    saveLoaders,  \* the default custom_weights_loaders list of line 553
    loadLoaders,  \* the default custom_weights_loaders list of line 575
    calls,        \* number of calls made so far
    budget,       \* number of calls the run may make
    last          \* the last call: its arguments, outcome and loader invocations

vars == <<cls, adapters, heads, sd, fs, saveLoaders, loadLoaders, calls, budget, last>>

(***************************************************************************)
(* Bounds and input sets                                                   *)
(***************************************************************************)
\* number of facade / set-up calls in a run
MaxOps == 4

\* number of calls in a run of the frame scenario, which needs two adapters
\* on the saving model, one on the target, a save and a load
MaxFrameOps == 5

Models == {"m1", "m2"}
Names == {"a", "ab"}
Dirs == {"d/a", "d/ab"}
Root == "d"
AdapterConfigs == {"pfeiffer", "houlsby"}
HeadConfigs == {"labels2", "labels3"}
None == "None"
NoFile == << >>

\* AdapterType members (adapter_config.AdapterType, imported on line 10)
text_task == "text_task"
text_lang == "text_lang"
AdapterTypes == {text_task, text_lang}

\* AdapterType.has(x)
AdapterTypeHas(t) == t \in AdapterTypes

(***************************************************************************)
(* Model classes.  BertModel mixes in ModelAdaptersMixin only;             *)
(* BertModelWithHeads mixes in ModelWithHeadsAdaptersMixin and keeps a     *)
(* config.prediction_heads registry; BertForSequenceClassification is the  *)
(* 'classic' model with a single unnamed head and no registry.             *)
(***************************************************************************)
Classes == {"BertModel", "BertModelWithHeads", "BertForSequenceClassification"}

\* the class overrides save_adapter / load_adapter with the with_head variants
WithHeadsMixin(c) == c \in {"BertModelWithHeads", "BertForSequenceClassification"}

\* hasattr(model.config, "prediction_heads")
HasHeadRegistry(c) == c = "BertModelWithHeads"

base_model_prefix == "bert"

(***************************************************************************)
(* Python string primitives                                                *)
(***************************************************************************)
\* p in s
Contains(s, p) ==
    \E i \in 1..(Len(s) + 1) :
        /\ i + Len(p) - 1 <= Len(s)
        /\ SubSeq(s, i, i + Len(p) - 1) = p

\* s.startswith(p)
StartsWith(s, p) == Len(p) <= Len(s) /\ SubSeq(s, 1, Len(p)) = p

\* s.replace(old, new): every non-overlapping occurrence, scanning from the left
RECURSIVE Replace(_, _, _)
Replace(s, old, new) ==
    IF Len(s) < Len(old) THEN s
    ELSE IF SubSeq(s, 1, Len(old)) = old
         THEN new \o Replace(SubSeq(s, Len(old) + 1, Len(s)), old, new)
         ELSE SubSeq(s, 1, 1) \o Replace(SubSeq(s, 2, Len(s)), old, new)

(***************************************************************************)
(* Small helpers on Python dicts (TLA+ functions)                          *)
(***************************************************************************)
\* dict f updated with dict g
Merge(f, g) ==
    [k \in (DOMAIN f) \cup (DOMAIN g) |-> IF k \in DOMAIN g THEN g[k] ELSE f[k]]

\* {k: v for k, v in f.items() if k in S}
Restrict(f, S) == [k \in (DOMAIN f) \cap S |-> f[k]]

EmptyDict == [k \in {} |-> 0]

\* `x or y` on optional names
Or(x, y) == IF x # None THEN x ELSE y

(***************************************************************************)
(* The model object: what add_adapter and add_prediction_head materialise, *)
(* and torch's non-strict load_state_dict.                                 *)
(***************************************************************************)
\* parameter names of the modules add_adapter(name, type) creates
AdapterKeys(t, n) ==
    IF t = text_lang
    THEN {"bert.text_lang_adapters." \o n \o ".w",
          "bert.invertible_lang_adapters." \o n \o ".w"}
    ELSE {"bert." \o t \o "_adapters." \o n \o ".w"}

\* parameter names of the module add_prediction_head(name) creates
HeadKeys(n) == {"heads." \o n \o ".w"}

BaseKey == "bert.embeddings.w"
ClassifierKey == "classifier.w"

\* Values of parameters.  Every model starts from the same pretrained weights;
\* the modules a model creates later are initialised at random, which is a
\* value of that model's own: no two models initialise alike.
Pretrained == "pretrained"
FreshValue(m) == "init-" \o m

\* model.add_adapter(adapter_name, adapter_type, config): registers the adapter
\* and creates its parameters, freshly initialised
add_adapter(w, m, n, t, c) ==
    [w EXCEPT !.adapters[m] = Merge(@, n :> [type |-> t, config |-> c]),
              !.sd[m] = Merge(@, [k \in AdapterKeys(t, n) |-> FreshValue(m)])]

\* model.add_prediction_head(head_name, config, overwrite_ok=True): registers
\* the head (replacing one of that name) and creates its parameters
add_prediction_head(w, m, n, c) ==
    [w EXCEPT !.heads[m] = Merge(@, n :> c),
              !.sd[m] = Merge(@, [k \in HeadKeys(n) |-> FreshValue(m)])]

\* model.load_state_dict(state_dict, strict=False)
load_state_dict(own, state_dict) ==
    [sd |-> Merge(own, Restrict(state_dict, DOMAIN own)),
     missing_keys |-> (DOMAIN own) \ (DOMAIN state_dict),
     unexpected_keys |-> (DOMAIN state_dict) \ (DOMAIN own)]

\* model.config.adapters.get_type(name)
get_type(w, m, n) ==
    IF n \in DOMAIN w.adapters[m] THEN w.adapters[m][n].type ELSE None

(***************************************************************************)
(* Filter and rename functions.  A filter_func is a record naming the      *)
(* closure's captured variables; FilterApply is the closure's body.        *)
(***************************************************************************)
\* the lambda AdapterLoader._get_params_check_func returns, applied to x
ParamsCheck(adapter_type, adapter_name, x) ==
    IF adapter_type = text_lang
    THEN \/ Contains(x, adapter_type \o "_adapters." \o adapter_name)
         \/ Contains(x, "invertible_lang_adapters." \o adapter_name)
    ELSE Contains(x, adapter_type \o "_adapters." \o adapter_name)

\* _filter_func without the test on the base model prefix being negated
HeadFilterOfBase(head_name, x) ==
    IF head_name # None
    THEN StartsWith(x, base_model_prefix) /\ Contains(x, "heads." \o head_name)
    ELSE StartsWith(x, base_model_prefix)

\* the lambda PredictionHeadLoader._filter_func returns, applied to x
HeadFilter(head_name, x) ==
    IF head_name # None
    THEN ~StartsWith(x, base_model_prefix) /\ Contains(x, "heads." \o head_name)
    ELSE ~StartsWith(x, base_model_prefix)

AdapterFilterFunc(t, n) == [kind |-> "adapter", type |-> t, name |-> n]
HeadFilterFunc(n) == [kind |-> "head", type |-> None, name |-> n]

FilterApply(f, x) ==
    IF f.kind = "adapter" THEN ParamsCheck(f.type, f.name, x)
    ELSE HeadFilter(f.name, x)

\* _rename_func replacing the bare name instead of "_adapters.{name}"
AdapterRenameBareName(old_name, new_name) == [old |-> old_name, new |-> new_name]

\* AdapterLoader._rename_func(old_name, new_name), as the pair it replaces
AdapterRenameFunc(old_name, new_name) ==
    [old |-> "_adapters." \o old_name, new |-> "_adapters." \o new_name]

\* PredictionHeadLoader._rename_func(old_name, new_name)
HeadRenameFunc(old_name, new_name) ==
    [old |-> "heads." \o old_name, new |-> "heads." \o new_name]

\* rename_func=None
NoRename == [old |-> "", new |-> ""]

RenameApply(r, k) == IF r = NoRename THEN k ELSE Replace(k, r.old, r.new)

\* logger.warning / logger.warn messages
WarnOverwriteAdapter == "Overwriting existing adapter"
WarnOverwriteHead == "Overwriting existing head"
WarnNoHeadName == "No prediction head with name available"
WarnNoHeadFound == "No matching prediction head found"
WarnMissingKeys == "Some module weights could not be found in loaded weights file"
WarnUnexpectedKeys == "Some weights of the state_dict could not be loaded into model"

(***************************************************************************)
(* WeightsLoader                                                           *)
(***************************************************************************)
\* _state_dict keeping the parameters the filter rejects
StateDictInverted(own, filter_func) ==
    Restrict(own, {k \in DOMAIN own : ~FilterApply(filter_func, k)})

\* WeightsLoader._state_dict
StateDict(own, filter_func) ==
    Restrict(own, {k \in DOMAIN own : FilterApply(filter_func, k)})

\* WeightsLoader._rename_state_dict (the renamed keys of one adapter or head
\* never collide, so the dict's iteration order does not matter)
RenameStateDict(state_dict, rename_func) ==
    [nk \in {RenameApply(rename_func, k) : k \in DOMAIN state_dict} |->
        state_dict[CHOOSE k \in DOMAIN state_dict : RenameApply(rename_func, k) = nk]]

\* WeightsLoader._save_weights_config: the config written, meta merged in
SavedConfig(config, meta_dict) ==
    [k \in (DOMAIN config) \cup (DOMAIN meta_dict) |->
        IF k \in DOMAIN config THEN config[k] ELSE meta_dict[k]]

\* WeightsLoader._load_weights on the content of the weights file
LoadWeights(own, state_dict, filter_func, rename_func) ==
    LET renamed == RenameStateDict(state_dict, rename_func)
        res == load_state_dict(own, renamed)
        missing_keys == {k \in res.missing_keys : FilterApply(filter_func, k)}
    IN  [sd |-> res.sd,
         missing_keys |-> missing_keys,
         unexpected_keys |-> res.unexpected_keys,
         warnings |-> (IF missing_keys # {} THEN {WarnMissingKeys} ELSE {})
                      \cup (IF res.unexpected_keys # {} THEN {WarnUnexpectedKeys} ELSE {})]

(***************************************************************************)
(* A world w is the mutable state a call works on: w.adapters[m] is        *)
(* model.config.adapters of model m (name -> type and config), w.heads[m]  *)
(* is model.config.prediction_heads, w.sd[m] is model.state_dict(), and    *)
(* w.fs[d] holds the four files of directory d.  A loader call returns     *)
(* [w, exc, ret, warnings, missing_keys, unexpected_keys]: the world it    *)
(* leaves, the exception it raised (None when it returned), its return     *)
(* value, the warnings it logged, and what _load_weights returned.         *)
(***************************************************************************)
Outcome(w, exc, ret, warnings, missing_keys, unexpected_keys) ==
    [w |-> w, exc |-> exc, ret |-> ret, warnings |-> warnings,
     missing_keys |-> missing_keys, unexpected_keys |-> unexpected_keys]

Returned(w, ret, warnings) == Outcome(w, None, ret, warnings, {}, {})
Raised(w, exc) == Outcome(w, exc, <<None, None>>, {}, {}, {})

NoReturn == <<None, None>>

\* build_full_config for an adapter (lines 181-184)
AdapterConfigDict(entry, name) ==
    [type |-> entry.type, name |-> name, config |-> entry.config, model_name |-> None]

\* AdapterLoader.save(save_directory, name, meta_dict)
AdapterLoaderSave(w, m, d, name, meta_dict) ==
    IF name \notin DOMAIN w.adapters[m]
    THEN Raised(w, "AssertionError")
    ELSE LET entry == w.adapters[m][name]
             config_dict == AdapterConfigDict(entry, name)
             filter_func == AdapterFilterFunc(entry.type, config_dict.name)
         IN  Returned([w EXCEPT
                 !.fs[d].config = <<SavedConfig(config_dict, meta_dict)>>,
                 !.fs[d].weights = <<StateDict(w.sd[m], filter_func)>>], NoReturn, {})

\* the type assertion left out
TypeMismatchIgnored(adapter_type, config) == FALSE

\* AdapterLoader.load, lines 223-224: the loader is bound to a type and the
\* loaded config records another one
TypeMismatch(adapter_type, config) ==
    adapter_type # None /\ config.type # adapter_type

\* AdapterLoader.load(adapter_name_or_path, load_as=...) of a loader bound to
\* adapter_type
AdapterLoaderLoad(w, m, adapter_type, d, load_as) ==
    IF w.fs[d].config = NoFile
    THEN Raised(w, "FileNotFoundError")
    ELSE LET config == w.fs[d].config[1] IN
         IF TypeMismatch(adapter_type, config)
         THEN Raised(w, "AssertionError")
         ELSE LET adapter_name == Or(load_as, config.name)
                  known == adapter_name \in DOMAIN w.adapters[m]
                  w1 == IF ~known
                        THEN add_adapter(w, m, adapter_name, config.type, config.config)
                        ELSE w
                  filter_func == AdapterFilterFunc(config.type, config.name)
                  rename_func == AdapterRenameFunc(config.name, adapter_name)
              IN  IF w.fs[d].weights = NoFile
                  THEN Raised(w1, "OSError")
                  ELSE LET lw == LoadWeights(w1.sd[m], w.fs[d].weights[1],
                                             filter_func, rename_func)
                       IN  Outcome([w1 EXCEPT !.sd[m] = lw.sd], None, <<d, adapter_name>>,
                                   (IF known THEN {WarnOverwriteAdapter} ELSE {})
                                       \cup lw.warnings,
                                   lw.missing_keys, lw.unexpected_keys)

\* build_full_config for a head (lines 296-301)
HeadConfigDict(head_config, name, model_class) ==
    [config |-> head_config, name |-> name, model_name |-> None,
     model_class |-> model_class]

\* PredictionHeadLoader.save(save_directory, name) with self.error_on_missing
PredictionHeadLoaderSave(w, m, error_on_missing, d, name0) ==
    LET registry == HasHeadRegistry(cls[m])
        unknown == name0 # None /\ registry /\ name0 \notin DOMAIN w.heads[m]
        name == IF name0 # None /\ ~registry THEN None ELSE name0
        head_config == IF name # None /\ registry THEN w.heads[m][name] ELSE None
        config_dict == HeadConfigDict(head_config, name, cls[m])
    IN  IF unknown
        THEN IF error_on_missing THEN Raised(w, "ValueError")
             ELSE Returned(w, NoReturn, {WarnNoHeadName})
        ELSE Returned([w EXCEPT
                 !.fs[d].head_config = <<SavedConfig(config_dict, EmptyDict)>>,
                 !.fs[d].head_weights = <<StateDict(w.sd[m], HeadFilterFunc(name))>>],
               NoReturn, {})

\* a missing weights file tolerated whatever error_on_missing says
HeadWeightsMissingTolerated(w, error_on_missing) ==
    Returned(w, <<None, None>>, {WarnNoHeadFound})

\* PredictionHeadLoader.load, lines 319-324: the directory has no head weights
HeadWeightsMissing(w, error_on_missing) ==
    IF error_on_missing THEN Raised(w, "ValueError")
    ELSE Returned(w, <<None, None>>, {WarnNoHeadFound})

\* a class mismatch raised whatever error_on_missing says
HeadClassMismatchRaised(w, error_on_missing) == Raised(w, "ValueError")

\* PredictionHeadLoader.load, lines 333-339: the head was saved by another class
HeadClassMismatch(w, error_on_missing) ==
    IF error_on_missing THEN Raised(w, "ValueError")
    ELSE Returned(w, <<None, None>>, {WarnNoHeadFound})

\* PredictionHeadLoader.load(save_directory, load_as) with self.error_on_missing
PredictionHeadLoaderLoad(w, m, error_on_missing, d, load_as) ==
    IF w.fs[d].head_weights = NoFile
    THEN HeadWeightsMissing(w, error_on_missing)
    ELSE LET has_config == w.fs[d].head_config # NoFile
             config == IF has_config THEN w.fs[d].head_config[1]
                       ELSE HeadConfigDict(None, None, cls[m])
         IN  IF has_config /\ cls[m] # config.model_class
             THEN HeadClassMismatch(w, error_on_missing)
             ELSE LET named == has_config /\ HasHeadRegistry(cls[m])
                      head_name == IF named THEN Or(load_as, config.name) ELSE None
                      known == named /\ head_name \in DOMAIN w.heads[m]
                      w1 == IF named
                            THEN add_prediction_head(w, m, head_name, config.config)
                            ELSE w
                      rename_func == IF head_name # None
                                     THEN HeadRenameFunc(config.name, head_name)
                                     ELSE NoRename
                      lw == LoadWeights(w1.sd[m], w.fs[d].head_weights[1],
                                        HeadFilterFunc(head_name), rename_func)
                  IN  Outcome([w1 EXCEPT !.sd[m] = lw.sd], None, <<d, head_name>>,
                              (IF known THEN {WarnOverwriteHead} ELSE {}) \cup lw.warnings,
                              lw.missing_keys, lw.unexpected_keys)

(***************************************************************************)
(* The mixin facade.  A weights loader object is [model, error_on_missing];*)
(* a facade call returns [w, exc, ret, log], log being the loader          *)
(* invocations it made, in order.                                          *)
(***************************************************************************)
\* PredictionHeadLoader(self, error_on_missing=False), lines 557 and 580
NewHeadLoader(m) == [model |-> m, error_on_missing |-> FALSE]

Invocation(loader, model, dir, r) ==
    [loader |-> loader, model |-> model, dir |-> dir, exc |-> r.exc, ret |-> r.ret,
     warnings |-> r.warnings, missing_keys |-> r.missing_keys,
     unexpected_keys |-> r.unexpected_keys]

\* the loop of lines 440-441 over custom_weights_loaders
RECURSIVE SaveCustomWeights(_, _, _, _, _)
SaveCustomWeights(w, loaders, d, adapter_name, log) ==
    IF loaders = << >>
    THEN [w |-> w, exc |-> None, ret |-> None, log |-> log]
    ELSE LET l == Head(loaders)
             r == PredictionHeadLoaderSave(w, l.model, l.error_on_missing, d, adapter_name)
             log1 == Append(log, Invocation("PredictionHeadLoader", l.model, d, r))
         IN  IF r.exc # None
             THEN [w |-> r.w, exc |-> r.exc, ret |-> None, log |-> log1]
             ELSE SaveCustomWeights(r.w, Tail(loaders), d, adapter_name, log1)

\* the loop of lines 481-482 over custom_weights_loaders
RECURSIVE LoadCustomWeights(_, _, _, _, _, _)
LoadCustomWeights(w, loaders, load_dir, load_as, load_name, log) ==
    IF loaders = << >>
    THEN [w |-> w, exc |-> None, ret |-> load_name, log |-> log]
    ELSE LET l == Head(loaders)
             r == PredictionHeadLoaderLoad(w, l.model, l.error_on_missing, load_dir, load_as)
             log1 == Append(log, Invocation("PredictionHeadLoader", l.model, load_dir, r))
         IN  IF r.exc # None
             THEN [w |-> r.w, exc |-> r.exc, ret |-> None, log |-> log1]
             ELSE LoadCustomWeights(r.w, Tail(loaders), load_dir, load_as, load_name, log1)

\* save_adapter without the check that the name resolves to an adapter type
MixinSaveAdapterUnchecked(w, m, d, adapter_name, meta_dict, custom_weights_loaders) ==
    LET r == AdapterLoaderSave(w, m, d, adapter_name, meta_dict)
        log == <<Invocation("AdapterLoader", m, d, r)>>
    IN  IF r.exc # None
        THEN [w |-> r.w, exc |-> r.exc, ret |-> None, log |-> log]
        ELSE SaveCustomWeights(r.w, custom_weights_loaders, d, adapter_name, log)

\* ModelAdaptersMixin.save_adapter
MixinSaveAdapter(w, m, d, adapter_name, meta_dict, custom_weights_loaders) ==
    LET adapter_type == get_type(w, m, adapter_name) IN
    IF adapter_type = None
    THEN [w |-> w, exc |-> "ValueError", ret |-> None, log |-> << >>]
    ELSE LET r == AdapterLoaderSave(w, m, d, adapter_name, meta_dict)
             log == <<Invocation("AdapterLoader", m, d, r)>>
         IN  IF r.exc # None
             THEN [w |-> r.w, exc |-> r.exc, ret |-> None, log |-> log]
             ELSE SaveCustomWeights(r.w, custom_weights_loaders, d, adapter_name, log)

\* load_adapter running the auxiliary loaders before the AdapterLoader
MixinLoadAdapterAuxFirst(w, m, d, adapter_type, load_as, custom_weights_loaders) ==
    LET aux == LoadCustomWeights(w, custom_weights_loaders, d, load_as, None, << >>)
        r == AdapterLoaderLoad(aux.w, m, adapter_type, d, load_as)
    IN  [w |-> r.w, exc |-> r.exc,
         ret |-> IF r.exc = None THEN r.ret[2] ELSE None,
         log |-> Append(aux.log, Invocation("AdapterLoader", m, d, r))]

\* ModelAdaptersMixin.load_adapter
MixinLoadAdapter(w, m, d, adapter_type, load_as, custom_weights_loaders) ==
    IF ~(AdapterTypeHas(adapter_type) \/ adapter_type = None)
    THEN [w |-> w, exc |-> "ValueError", ret |-> None, log |-> << >>]
    ELSE LET r == AdapterLoaderLoad(w, m, adapter_type, d, load_as)
             log == <<Invocation("AdapterLoader", m, d, r)>>
         IN  IF r.exc # None
             THEN [w |-> r.w, exc |-> r.exc, ret |-> None, log |-> log]
             ELSE LoadCustomWeights(r.w, custom_weights_loaders, r.ret[1], load_as,
                                    r.ret[2], log)

\* with_head ignored: no PredictionHeadLoader is appended
WithoutHeadLoaders(default_list, m, with_head) == default_list

\* the list ModelWithHeadsAdaptersMixin.save_adapter / load_adapter hands to
\* super(): the shared default list, appended to when with_head is set
WithHeadLoaders(default_list, m, with_head) ==
    IF with_head THEN Append(default_list, NewHeadLoader(m)) ELSE default_list

\* ModelWithHeadsAdaptersMixin.save_adapter
HeadsMixinSaveAdapter(w, m, d, adapter_name, with_head, meta_dict, default_list) ==
    MixinSaveAdapter(w, m, d, adapter_name, meta_dict,
                     WithHeadLoaders(default_list, m, with_head))

\* ModelWithHeadsAdaptersMixin.load_adapter: the result of super().load_adapter
\* is dropped, so the call returns None
HeadsMixinLoadAdapter(w, m, d, adapter_type, load_as, with_head, default_list) ==
    [MixinLoadAdapter(w, m, d, adapter_type, load_as,
                      WithHeadLoaders(default_list, m, with_head))
        EXCEPT !.ret = None]

\* get_adapter_config_hash(adapter_config)
get_adapter_config_hash(c) == "hash-of-" \o c

\* a caller's meta_dict handed on without the update of its config_id
MetaKeepingConfigId(meta_dict, h) ==
    IF DOMAIN meta_dict # {}
    THEN Merge([config_id |-> h], meta_dict)
    ELSE [config_id |-> h]

\* meta_dict as save_all_adapters hands it to save_adapter (lines 498-501)
MetaWithConfigId(meta_dict, h) ==
    IF DOMAIN meta_dict # {}
    THEN Merge(meta_dict, [config_id |-> h])
    ELSE [config_id |-> h]

\* os.path.join(save_directory, name)
Join(dir, name) == dir \o "/" \o name

\* the adapters save_all_adapters still has to save, one step of its loop each
RECURSIVE SaveAll(_, _, _, _, _, _)
SaveAll(w, m, todo, meta_dict, default_list, log) ==
    IF todo = {}
    THEN [w |-> w, exc |-> None, ret |-> None, log |-> log, loaders |-> default_list]
    ELSE LET name == CHOOSE n \in todo : TRUE
             h == get_adapter_config_hash(w.adapters[m][name].config)
             meta == MetaWithConfigId(meta_dict, h)
             heads_mixin == WithHeadsMixin(cls[m])
             r == IF heads_mixin
                  THEN HeadsMixinSaveAdapter(w, m, Join(Root, name), name, TRUE, meta,
                                             default_list)
                  ELSE MixinSaveAdapter(w, m, Join(Root, name), name, meta, << >>)
             list1 == IF heads_mixin THEN WithHeadLoaders(default_list, m, TRUE)
                      ELSE default_list
         IN  IF r.exc # None
             THEN [w |-> r.w, exc |-> r.exc, ret |-> None, log |-> log \o r.log,
                   loaders |-> list1]
             ELSE SaveAll(r.w, m, todo \ {name}, meta, list1, log \o r.log)

(***************************************************************************)
(* State machine                                                           *)
(***************************************************************************)
World == [adapters |-> adapters, heads |-> heads, sd |-> sd, fs |-> fs]

Commit(w) ==
    /\ adapters' = w.adapters
    /\ heads' = w.heads
    /\ sd' = w.sd
    /\ fs' = w.fs

EmptyDir == [config |-> NoFile, weights |-> NoFile,
             head_config |-> NoFile, head_weights |-> NoFile]

\* the parameters a freshly constructed model of class c has
InitialStateDict(c, m) ==
    IF WithHeadsMixin(c) /\ ~HasHeadRegistry(c)
    THEN (BaseKey :> Pretrained) @@ (ClassifierKey :> FreshValue(m))
    ELSE (BaseKey :> Pretrained)

Call(op, m, d, name, type, with_head, meta, r) ==
    [op |-> op, model |-> m, dir |-> d, name |-> name, type |-> type,
     with_head |-> with_head, meta |-> meta, exc |-> r.exc, ret |-> r.ret,
     log |-> r.log]

NoResult == [exc |-> None, ret |-> <<None>>, log |-> << >>]

\* two models of classes c1 and c2, nothing saved, no call made, and a run
\* of at most n calls ahead
InitFor(c1, c2, n) ==
    /\ budget = n
    /\ cls = [m \in Models |-> IF m = "m1" THEN c1 ELSE c2]
    /\ adapters = [m \in Models |-> EmptyDict]
    /\ heads = [m \in Models |-> EmptyDict]
    /\ sd = [m \in Models |-> InitialStateDict(cls[m], m)]
    /\ fs = [d \in Dirs |-> EmptyDir]
    /\ saveLoaders = << >>
    /\ loadLoaders = << >>
    /\ calls = 0
    /\ last = Call("init", None, None, None, None, FALSE, EmptyDict, NoResult)

InitWith(c1, c2) == InitFor(c1, c2, MaxOps)

Init == \E c1 \in Classes, c2 \in Classes : InitWith(c1, c2)

\* model.add_adapter(n, t, config=c) by the user
AddAdapter(m, n, t, c) ==
    /\ calls < budget
    /\ n \notin DOMAIN adapters[m]
    /\ Commit(add_adapter(World, m, n, t, c))
    /\ calls' = calls + 1
    /\ budget' = budget
    /\ last' = Call("add_adapter", m, None, n, t, FALSE, EmptyDict, NoResult)
    /\ UNCHANGED <<cls, saveLoaders, loadLoaders>>

\* model.add_classification_head(n, ...) and its siblings, by the user
AddPredictionHead(m, n, c) ==
    /\ calls < budget
    /\ HasHeadRegistry(cls[m])
    /\ n \notin DOMAIN heads[m]
    /\ Commit(add_prediction_head(World, m, n, c))
    /\ calls' = calls + 1
    /\ budget' = budget
    /\ last' = Call("add_prediction_head", m, None, n, None, FALSE, EmptyDict, NoResult)
    /\ UNCHANGED <<cls, saveLoaders, loadLoaders>>

\* model.save_adapter(d, n) / model.save_adapter(d, n, with_head=with_head)
SaveAdapter(m, d, n, with_head) ==
    /\ calls < budget
    /\ LET heads_mixin == WithHeadsMixin(cls[m])
           r == IF heads_mixin
                THEN HeadsMixinSaveAdapter(World, m, d, n, with_head, EmptyDict, saveLoaders)
                ELSE MixinSaveAdapter(World, m, d, n, EmptyDict, << >>)
       IN  /\ heads_mixin \/ ~with_head
           /\ Commit(r.w)
           /\ saveLoaders' = IF heads_mixin THEN WithHeadLoaders(saveLoaders, m, with_head)
                             ELSE saveLoaders
           /\ last' = Call("save_adapter", m, d, n, None, with_head, EmptyDict,
                           [r EXCEPT !.ret = <<r.ret>>])
    /\ calls' = calls + 1
    /\ budget' = budget
    /\ UNCHANGED <<cls, loadLoaders>>

\* model.load_adapter(d, adapter_type=t, load_as=load_as, with_head=with_head)
LoadAdapter(m, d, t, load_as, with_head) ==
    /\ calls < budget
    /\ LET heads_mixin == WithHeadsMixin(cls[m])
           r == IF heads_mixin
                THEN HeadsMixinLoadAdapter(World, m, d, t, load_as, with_head, loadLoaders)
                ELSE MixinLoadAdapter(World, m, d, t, load_as, << >>)
       IN  /\ heads_mixin \/ ~with_head
           /\ Commit(r.w)
           /\ loadLoaders' = IF heads_mixin THEN WithHeadLoaders(loadLoaders, m, with_head)
                             ELSE loadLoaders
           /\ last' = Call("load_adapter", m, d, load_as, t, with_head, EmptyDict,
                           [r EXCEPT !.ret = <<r.ret>>])
    /\ calls' = calls + 1
    /\ budget' = budget
    /\ UNCHANGED <<cls, saveLoaders>>

\* PredictionHeadLoader(model, error_on_missing).save(d, name=head_name);
\* model.save_head(d, head_name) is the call with error_on_missing = TRUE.
\* last.with_head records error_on_missing.
SaveHead(m, d, head_name, error_on_missing) ==
    /\ calls < budget
    /\ WithHeadsMixin(cls[m])
    /\ head_name = None => ~HasHeadRegistry(cls[m])
    /\ LET r == PredictionHeadLoaderSave(World, m, error_on_missing, d, head_name)
       IN  /\ Commit(r.w)
           /\ last' = Call("save_head", m, d, head_name, None, error_on_missing, EmptyDict,
                           [exc |-> r.exc, ret |-> <<None>>,
                            log |-> <<Invocation("PredictionHeadLoader", m, d, r)>>])
    /\ calls' = calls + 1
    /\ budget' = budget
    /\ UNCHANGED <<cls, saveLoaders, loadLoaders>>

\* PredictionHeadLoader(model, error_on_missing).load(d, load_as=load_as);
\* model.load_head(d, load_as) is the call with error_on_missing = TRUE.
\* last.with_head records error_on_missing.
LoadHead(m, d, load_as, error_on_missing) ==
    /\ calls < budget
    /\ WithHeadsMixin(cls[m])
    /\ LET r == PredictionHeadLoaderLoad(World, m, error_on_missing, d, load_as)
       IN  /\ Commit(r.w)
           /\ last' = Call("load_head", m, d, load_as, None, error_on_missing, EmptyDict,
                           [exc |-> r.exc, ret |-> r.ret,
                            log |-> <<Invocation("PredictionHeadLoader", m, d, r)>>])
    /\ calls' = calls + 1
    /\ budget' = budget
    /\ UNCHANGED <<cls, saveLoaders, loadLoaders>>

\* AdapterLoader(model).save(d, n), the loader used without the facade
LoaderSave(m, d, n) ==
    /\ calls < budget
    /\ LET r == AdapterLoaderSave(World, m, d, n, EmptyDict)
       IN  /\ Commit(r.w)
           /\ last' = Call("loader_save", m, d, n, None, FALSE, EmptyDict,
                           [exc |-> r.exc, ret |-> <<None>>,
                            log |-> <<Invocation("AdapterLoader", m, d, r)>>])
    /\ calls' = calls + 1
    /\ budget' = budget
    /\ UNCHANGED <<cls, saveLoaders, loadLoaders>>

\* model.save_all_adapters(Root, meta_dict)
SaveAllAdapters(m, meta_dict) ==
    /\ calls < budget
    /\ LET r == SaveAll(World, m, DOMAIN adapters[m], meta_dict, saveLoaders, << >>)
       IN  /\ Commit(r.w)
           /\ saveLoaders' = r.loaders
           /\ last' = Call("save_all_adapters", m, Root, None, None, WithHeadsMixin(cls[m]),
                           meta_dict, [exc |-> r.exc, ret |-> <<None>>, log |-> r.log])
    /\ calls' = calls + 1
    /\ budget' = budget
    /\ UNCHANGED <<cls, loadLoaders>>

\* the meta_dict arguments tried: none, a plain one, and one that already
\* carries a config_id and a key of the adapter config
MetaDicts == {EmptyDict, [author |-> "me"], [config_id |-> "stale", name |-> "other"]}

\* the adapter_type arguments tried with load_adapter
LoadTypes == {None, text_task}

Next ==
    \/ \E m \in Models, n \in Names, t \in AdapterTypes, c \in AdapterConfigs :
          AddAdapter(m, n, t, c)
    \/ \E m \in Models, n \in Names, c \in HeadConfigs : AddPredictionHead(m, n, c)
    \/ \E m \in Models, d \in Dirs, n \in Names, with_head \in BOOLEAN :
          SaveAdapter(m, d, n, with_head)
    \/ \E m \in Models, d \in Dirs, t \in LoadTypes, load_as \in Names \cup {None},
          with_head \in BOOLEAN :
          LoadAdapter(m, d, t, load_as, with_head)
    \/ \E m \in Models, d \in Dirs, n \in Names \cup {None}, eom \in BOOLEAN :
          SaveHead(m, d, n, eom)
    \/ \E m \in Models, d \in Dirs, load_as \in Names \cup {None}, eom \in BOOLEAN :
          LoadHead(m, d, load_as, eom)
    \/ \E m \in Models, meta_dict \in MetaDicts : SaveAllAdapters(m, meta_dict)
    \/ \E m \in Models, d \in Dirs, n \in Names : LoaderSave(m, d, n)

Spec == Init /\ [][Next]_vars

(***************************************************************************)
(* Scenarios: the same calls with the roles of the tests.  m1 is the model *)
(* that is set up and saved, m2 the model that is loaded into; everything  *)
(* goes through one directory.                                             *)
(***************************************************************************)
Dir == "d/a"

\* test_load_adapter: twin models of a class with or without heads
InitAdapters == \E c \in {"BertModel", "BertModelWithHeads"} : InitWith(c, c)

NextAdapters ==
    \/ \E m \in Models, n \in Names, t \in AdapterTypes, c \in AdapterConfigs :
          AddAdapter(m, n, t, c)
    \/ \E n \in Names : SaveAdapter("m1", Dir, n, WithHeadsMixin(cls["m1"]))
    \/ \E t \in LoadTypes, load_as \in Names \cup {None} :
          LoadAdapter("m2", Dir, t, load_as, WithHeadsMixin(cls["m2"]))

SpecAdapters == InitAdapters /\ [][NextAdapters]_vars

\* PredictionHeadModelTest: models with heads, of the same or of different
\* classes
InitHeads ==
    \/ InitWith("BertModelWithHeads", "BertModelWithHeads")
    \/ InitWith("BertModelWithHeads", "BertForSequenceClassification")
    \/ InitWith("BertForSequenceClassification", "BertModelWithHeads")

NextHeads ==
    \/ \E n \in Names : AddAdapter("m1", n, text_task, "pfeiffer")
    \/ \E m \in Models, n \in Names, c \in HeadConfigs : AddPredictionHead(m, n, c)
    \/ \E n \in Names \cup {None}, eom \in BOOLEAN : SaveHead("m1", Dir, n, eom)
    \/ \E load_as \in Names \cup {None}, eom \in BOOLEAN : LoadHead("m2", Dir, load_as, eom)
    \/ \E n \in Names, with_head \in BOOLEAN : SaveAdapter("m1", Dir, n, with_head)
    \/ \E with_head \in BOOLEAN : LoadAdapter("m2", Dir, None, None, with_head)

SpecHeads == InitHeads /\ [][NextHeads]_vars

\* save_all_adapters on a model with or without heads
InitSaveAll == \E c \in {"BertModel", "BertModelWithHeads"} : InitWith(c, c)

NextSaveAll ==
    \/ \E n \in Names, t \in AdapterTypes, c \in AdapterConfigs : AddAdapter("m1", n, t, c)
    \/ \E meta_dict \in MetaDicts : SaveAllAdapters("m1", meta_dict)

SpecSaveAll == InitSaveAll /\ [][NextSaveAll]_vars

\* saving only: one model with or without heads, its adapters and heads, and
\* saves through the facade and through the loader
InitSave == \E c \in {"BertModel", "BertModelWithHeads"} : InitWith(c, c)

NextSave ==
    \/ \E n \in Names, t \in AdapterTypes : AddAdapter("m1", n, t, "pfeiffer")
    \/ \E n \in Names : AddPredictionHead("m1", n, "labels2")
    \/ \E d \in Dirs, n \in Names, with_head \in BOOLEAN : SaveAdapter("m1", d, n, with_head)
    \/ \E d \in Dirs, n \in Names : LoaderSave("m1", d, n)

SpecSave == InitSave /\ [][NextSave]_vars

\* two models with heads in one process, both saving and loading adapters
\* with their heads through one directory
InitBundle == InitWith("BertModelWithHeads", "BertModelWithHeads")

NextBundle ==
    \/ \E m \in Models : AddAdapter(m, "a", text_task, "pfeiffer")
    \/ \E m \in Models : AddPredictionHead(m, "a", "labels2")
    \/ \E m \in Models : SaveAdapter(m, Dir, "a", TRUE)
    \/ \E m \in Models : LoadAdapter(m, Dir, None, None, TRUE)

SpecBundle == InitBundle /\ [][NextBundle]_vars

\* a model with several task adapters saves one of them and a second model
\* with adapters of its own loads it
InitFrame == InitFor("BertModel", "BertModel", MaxFrameOps)

NextFrame ==
    \/ \E m \in Models, n \in Names : AddAdapter(m, n, text_task, "pfeiffer")
    \/ \E n \in Names : SaveAdapter("m1", Dir, n, FALSE)
    \/ \E load_as \in Names \cup {None} : LoadAdapter("m2", Dir, None, load_as, FALSE)

SpecFrame == InitFrame /\ [][NextFrame]_vars

(***************************************************************************)
(* Claims.  A claim about what a call does is a property of the step that  *)
(* makes the call: unprimed variables are the state before it, primed ones *)
(* the state after it, and last' describes the call.                       *)
(***************************************************************************)
\* model m2 is a twin of m1 that lacks adapter n: same class, and every
\* parameter m2 has is a parameter of m1 with the same value
TwinWithout(m1, m2, n) ==
    /\ m1 # m2
    /\ cls[m1] = cls[m2]
    /\ n \notin DOMAIN adapters[m2]
    /\ \A k \in DOMAIN sd[m2] : k \in DOMAIN sd[m1] /\ sd[m2][k] = sd[m1][k]

\* the step loads, without load_as, the directory the previous call saved
\* adapter last.name of model last.model into
LoadsWhatWasSaved ==
    /\ last.op = "save_adapter" /\ last.exc = None
    /\ last'.op = "load_adapter" /\ last'.exc = None
    /\ last'.dir = last.dir

\* C1: save_adapter(dir, name) on M1 followed by load_adapter(dir) on a twin M2
\* that lacks the adapter registers the name on M2 under the same type, and
\* afterwards every parameter of M2 (the adapter's and all others) equals the
\* parameter of M1 under the same key.
C1_AdapterRoundTrip ==
    [][(/\ LoadsWhatWasSaved
        /\ last'.name = None
        /\ TwinWithout(last.model, last'.model, last.name))
       => LET m1 == last.model
              m2 == last'.model
              n == last.name
          IN  /\ n \in DOMAIN adapters'[m2]
              /\ adapters'[m2][n].type = adapters[m1][n].type
              /\ AdapterKeys(adapters[m1][n].type, n) \subseteq DOMAIN sd'[m2]
              /\ \A k \in DOMAIN sd'[m2] :
                    k \in DOMAIN sd[m1] /\ sd'[m2][k] = sd[m1][k]]_vars

\* a round trip happened: the last call loaded, without load_as and without
\* overwriting, the lang adapter "ab" that m1 saved, and m2 now holds m1's
\* parameters for it
C1_Witness ==
    /\ last.op = "load_adapter" /\ last.exc = None /\ last.model = "m2"
    /\ last.name = None
    /\ WarnOverwriteAdapter \notin last.log[1].warnings
    /\ cls["m1"] = cls["m2"]
    /\ "ab" \in DOMAIN adapters["m1"] /\ "ab" \in DOMAIN adapters["m2"]
    /\ adapters["m2"]["ab"].type = text_lang
    /\ fs[last.dir].weights = <<[k \in AdapterKeys(text_lang, "ab") |-> FreshValue("m1")]>>
    /\ \A k \in AdapterKeys(text_lang, "ab") : sd["m2"][k] = FreshValue("m1")

\* the parameters of head n: those under "heads.{n}."
UnderHead(n, k) == StartsWith(k, "heads." \o n \o ".")

\* C2: on models with named heads of the same class, save_head(dir, name) on
\* M1 followed by load_head(dir) on M2 registers the name on M2 with the saved
\* head config, makes every parameter of M2 under heads.{name} equal to M1's,
\* and returns (dir, name).
C2_HeadRoundTrip ==
    [][(/\ last.op = "save_head" /\ last.exc = None /\ last.name # None
        /\ last'.op = "load_head" /\ last'.exc = None /\ last'.name = None
        /\ last'.dir = last.dir
        /\ last'.model # last.model
        /\ cls[last.model] = cls[last'.model]
        /\ HasHeadRegistry(cls[last.model])
        /\ last.name \in DOMAIN heads[last.model])
       => LET m1 == last.model
              m2 == last'.model
              n == last.name
          IN  /\ n \in DOMAIN heads'[m2]
              /\ heads'[m2][n] = heads[m1][n]
              /\ \E k \in DOMAIN sd'[m2] : UnderHead(n, k)
              /\ \A k \in DOMAIN sd'[m2] :
                    UnderHead(n, k) => k \in DOMAIN sd[m1] /\ sd'[m2][k] = sd[m1][k]
              /\ last'.ret = <<last'.dir, n>>]_vars

\* m2 loaded the head "a" that m1 saved and holds m1's parameters for it
C2_Witness ==
    /\ last.op = "load_head" /\ last.exc = None /\ last.model = "m2"
    /\ last.name = None
    /\ last.ret = <<last.dir, "a">>
    /\ cls["m1"] = cls["m2"]
    /\ "a" \in DOMAIN heads["m1"] /\ "a" \in DOMAIN heads["m2"]
    /\ heads["m2"]["a"] = "labels3"
    /\ sd["m2"]["heads.a.w"] = FreshValue("m1")

\* C5: PredictionHeadLoader.load on a directory without the head weights file
\* raises ValueError when error_on_missing is set and returns (None, None)
\* when it is not; either way it leaves the model's head registry and
\* parameters as they were.
C5_MissingHeadWeights ==
    [][(last'.op = "load_head" /\ fs[last'.dir].head_weights = NoFile)
       => /\ last'.with_head => last'.exc = "ValueError"
          /\ ~last'.with_head => last'.exc = None /\ last'.ret = <<None, None>>
          /\ heads' = heads
          /\ sd' = sd]_vars

\* a load with error_on_missing raised on a directory that holds an adapter
\* but no head weights, on a model that has a head of its own
C5_Witness ==
    /\ last.op = "load_head" /\ last.with_head /\ last.exc = "ValueError"
    /\ fs[last.dir].head_weights = NoFile
    /\ fs[last.dir].weights # NoFile
    /\ DOMAIN heads[last.model] # {}

\* C6: PredictionHeadLoader.load of a head whose config records another model
\* class raises when error_on_missing is set and returns (None, None) when it
\* is not; either way the head registry is unchanged and no weight is loaded.
C6_ClassMismatch ==
    [][(/\ last'.op = "load_head"
        /\ fs[last'.dir].head_weights # NoFile
        /\ fs[last'.dir].head_config # NoFile
        /\ fs[last'.dir].head_config[1].model_class # cls[last'.model])
       => /\ last'.with_head => last'.exc = "ValueError"
          /\ ~last'.with_head => last'.exc = None /\ last'.ret = <<None, None>>
          /\ heads' = heads
          /\ sd' = sd]_vars

\* a head saved by a BertModelWithHeads was refused, without an exception, by
\* a model of another class
C6_Witness ==
    /\ last.op = "load_head" /\ ~last.with_head /\ last.exc = None
    /\ last.ret = <<None, None>>
    /\ fs[last.dir].head_weights # NoFile
    /\ fs[last.dir].head_config # NoFile
    /\ fs[last.dir].head_config[1].model_class = "BertModelWithHeads"
    /\ cls[last.model] = "BertForSequenceClassification"

\* the config and the weights a loader finds in directory d
ConfigIn(d) == fs[d].config[1]
WeightsIn(d) == fs[d].weights[1]

\* the name an adapter load registers: load_as or the stored name
EffectiveName(load_as, d) == Or(load_as, ConfigIn(d).name)

\* C3, as stated: loading as X what was saved as Y, X # Y, into a model with
\* neither registered, leaves X and not Y in the registry, every saved
\* parameter under the key with '_adapters.Y' replaced by '_adapters.X', and
\* no parameter key of the target containing the substring Y.
C3_RenameAsStated ==
    [][(/\ LoadsWhatWasSaved
        /\ last'.name # None /\ last'.name # last.name
        /\ last'.name \notin DOMAIN adapters[last'.model]
        /\ last.name \notin DOMAIN adapters[last'.model])
       => LET m2 == last'.model
              X == last'.name
              Y == last.name
              saved == WeightsIn(last.dir)
          IN  /\ X \in DOMAIN adapters'[m2]
              /\ Y \notin DOMAIN adapters'[m2]
              /\ \A k \in DOMAIN saved :
                    LET nk == Replace(k, "_adapters." \o Y, "_adapters." \o X)
                    IN  nk \in DOMAIN sd'[m2] /\ sd'[m2][nk] = saved[k]
              /\ \A k \in DOMAIN sd'[m2] : ~Contains(k, Y)]_vars

\* C3, amended: ... leaves X and not Y in the registry, every saved parameter
\* of adapter Y under the key with '_adapters.Y' replaced by '_adapters.X',
\* and no parameter key of the target containing '_adapters.Y.'.
C3_Rename ==
    [][(/\ LoadsWhatWasSaved
        /\ last'.name # None /\ last'.name # last.name
        /\ last'.name \notin DOMAIN adapters[last'.model]
        /\ last.name \notin DOMAIN adapters[last'.model])
       => LET m1 == last.model
              m2 == last'.model
              X == last'.name
              Y == last.name
              saved == WeightsIn(last.dir)
          IN  /\ X \in DOMAIN adapters'[m2]
              /\ Y \notin DOMAIN adapters'[m2]
              /\ AdapterKeys(adapters[m1][Y].type, Y) \subseteq DOMAIN saved
              /\ \A k \in AdapterKeys(adapters[m1][Y].type, Y) :
                    LET nk == Replace(k, "_adapters." \o Y, "_adapters." \o X)
                    IN  nk \in DOMAIN sd'[m2] /\ sd'[m2][nk] = saved[k]
              /\ \A k \in DOMAIN sd'[m2] : ~Contains(k, "_adapters." \o Y \o ".")]_vars

\* m2 loaded as "a" the lang adapter m1 saved as "ab"
C3_Witness ==
    /\ last.op = "load_adapter" /\ last.exc = None /\ last.model = "m2"
    /\ last.name = "a"
    /\ WarnOverwriteAdapter \notin last.log[1].warnings
    /\ ConfigIn(last.dir).name = "ab"
    /\ ConfigIn(last.dir).type = text_lang
    /\ DOMAIN adapters["m2"] = {"a"}
    /\ \A k \in AdapterKeys(text_lang, "a") : sd["m2"][k] = FreshValue("m1")

\* C4: on a model with a head registry that has an adapter and a head of the
\* same name, save_adapter(dir, name) with with_head writes the adapter's and
\* the head's config and weights, and load_adapter(dir) with with_head on a
\* twin registers both under that name with the parameters of the saving model.
C4_AdapterWithHead ==
    [][/\ (/\ last'.op = "save_adapter" /\ last'.with_head
           /\ HasHeadRegistry(cls[last'.model])
           /\ last'.name \in DOMAIN adapters[last'.model]
           /\ last'.name \in DOMAIN heads[last'.model])
          => LET m == last'.model
                 n == last'.name
                 d == last'.dir
                 t == adapters[m][n].type
             IN  /\ last'.exc = None
                 /\ fs'[d].config = <<AdapterConfigDict(adapters[m][n], n)>>
                 /\ fs'[d].head_config = <<HeadConfigDict(heads[m][n], n, cls[m])>>
                 /\ fs'[d].weights # NoFile /\ fs'[d].head_weights # NoFile
                 /\ \A k \in AdapterKeys(t, n) :
                       k \in DOMAIN fs'[d].weights[1] /\ fs'[d].weights[1][k] = sd[m][k]
                 /\ \A k \in HeadKeys(n) :
                       k \in DOMAIN fs'[d].head_weights[1]
                       /\ fs'[d].head_weights[1][k] = sd[m][k]
       /\ (/\ LoadsWhatWasSaved
           /\ last.with_head /\ last'.with_head /\ last'.name = None
           /\ HasHeadRegistry(cls[last.model])
           /\ last.name \in DOMAIN heads[last.model]
           /\ TwinWithout(last.model, last'.model, last.name))
          => LET m1 == last.model
                 m2 == last'.model
                 n == last.name
             IN  /\ n \in DOMAIN adapters'[m2]
                 /\ adapters'[m2][n] = adapters[m1][n]
                 /\ n \in DOMAIN heads'[m2]
                 /\ heads'[m2][n] = heads[m1][n]
                 /\ \A k \in AdapterKeys(adapters[m1][n].type, n) \cup HeadKeys(n) :
                       k \in DOMAIN sd'[m2] /\ sd'[m2][k] = sd[m1][k]]_vars

\* m2 loaded adapter "a" together with head "a" from the directory m1 saved
\* both into
C4_Witness ==
    /\ last.op = "load_adapter" /\ last.exc = None /\ last.model = "m2"
    /\ last.with_head /\ last.name = None
    /\ Len(last.log) >= 2
    /\ last.log[Len(last.log)].ret = <<last.dir, "a">>
    /\ "a" \in DOMAIN adapters["m1"] /\ "a" \in DOMAIN heads["m1"]
    /\ "a" \in DOMAIN adapters["m2"] /\ "a" \in DOMAIN heads["m2"]
    /\ fs[last.dir].head_config = <<HeadConfigDict(heads["m1"]["a"], "a", cls["m1"])>>
    /\ sd["m2"]["heads.a.w"] = FreshValue("m1")
    /\ sd["m2"]["bert.text_task_adapters.a.w"] = FreshValue("m1")

\* C7 as stated: a load whose effective name is already registered warns and
\* replaces the entry: the entry then carries the type and config of the
\* loaded adapter, and the adapter's parameters are those of the file.
C7_OverwriteAsStated ==
    [][(/\ last'.op = "load_adapter" /\ last'.exc = None
        /\ EffectiveName(last'.name, last'.dir) \in DOMAIN adapters[last'.model])
       => LET m == last'.model
              d == last'.dir
              n == EffectiveName(last'.name, d)
          IN  /\ WarnOverwriteAdapter \in last'.log[1].warnings
              /\ DOMAIN adapters'[m] = DOMAIN adapters[m]
              /\ adapters'[m][n] = [type |-> ConfigIn(d).type, config |-> ConfigIn(d).config]
              /\ \A k \in AdapterKeys(ConfigIn(d).type, ConfigIn(d).name) :
                    LET nk == Replace(k, "_adapters." \o ConfigIn(d).name, "_adapters." \o n)
                    IN  nk \in DOMAIN sd'[m] /\ sd'[m][nk] = WeightsIn(d)[k]]_vars

\* C8: after save_all_adapters the saved config of every adapter of the model
\* is that adapter's config with a config_id that is the hash of it.
C8_ConfigId ==
    [][last'.op = "save_all_adapters"
       => LET m == last'.model IN
          /\ last'.exc = None
          /\ \A n \in DOMAIN adapters[m] :
                LET f == fs'[Join(Root, n)].config IN
                /\ f # NoFile
                /\ f[1].name = n
                /\ f[1].config = adapters[m][n].config
                /\ "config_id" \in DOMAIN f[1]
                /\ f[1].config_id = get_adapter_config_hash(adapters[m][n].config)]_vars

\* save_all_adapters with a meta_dict that carried a stale config_id saved two
\* adapters of different configs, each with its own hash
C8_Witness ==
    /\ last.op = "save_all_adapters" /\ last.exc = None
    /\ "config_id" \in DOMAIN last.meta
    /\ DOMAIN adapters[last.model] = Names
    /\ fs["d/a"].config # NoFile /\ fs["d/ab"].config # NoFile
    /\ fs["d/a"].config[1].config_id = get_adapter_config_hash("pfeiffer")
    /\ fs["d/ab"].config[1].config_id = get_adapter_config_hash("houlsby")

\* C9 as documented: a successful load_adapter returns the name with which the
\* adapter was added to the model.
C9_ReturnsName ==
    [][(last'.op = "load_adapter" /\ last'.exc = None)
       => last'.ret = <<EffectiveName(last'.name, last'.dir)>>]_vars

\* the PredictionHeadLoader invocations of a call
HeadLoaderCalls(log) == {i \in 1..Len(log) : log[i].loader = "PredictionHeadLoader"}

\* C10 as stated: a save_adapter or load_adapter call with with_head and no
\* caller-supplied loaders invokes exactly one PredictionHeadLoader, the one
\* of the model of the call.
C10_FreshLoaderList ==
    [][(/\ last'.op \in {"save_adapter", "load_adapter"}
        /\ last'.with_head /\ last'.exc = None)
       => /\ Cardinality(HeadLoaderCalls(last'.log)) = 1
          /\ \A i \in HeadLoaderCalls(last'.log) :
                last'.log[i].model = last'.model]_vars

\* the keys of the weights file of directory d as an adapter load with
\* load_as offers them to the model
RenamedKeysIn(d, load_as) ==
    {Replace(k, "_adapters." \o ConfigIn(d).name,
                "_adapters." \o EffectiveName(load_as, d)) : k \in DOMAIN WeightsIn(d)}

\* C11, as stated: an adapter load reports as missing exactly the parameters
\* of the adapter under its effective name that the file does not provide,
\* reports no other key as missing, and reports every key of the file the
\* model does not have as unexpected.
C11_KeyReportAsStated ==
    [][(last'.op = "load_adapter" /\ last'.log # << >> /\ last'.log[1].exc = None)
       => LET m == last'.model
              d == last'.dir
              n == EffectiveName(last'.name, d)
              offered == RenamedKeysIn(d, last'.name)
              own == DOMAIN sd'[m]
              r == last'.log[1]
          IN  /\ r.missing_keys =
                    {k \in own \ offered : k \in AdapterKeys(adapters'[m][n].type, n)}
              /\ r.unexpected_keys = offered \ own
              /\ WarnMissingKeys \in r.warnings <=> r.missing_keys # {}
              /\ WarnUnexpectedKeys \in r.warnings <=> r.unexpected_keys # {}]_vars

\* C12: a load_adapter bound to adapter type T of a directory whose config
\* records another type fails, and leaves the adapter registry, the head
\* registry and the parameters of every model as they were.
C12_TypeMismatch ==
    [][(/\ last'.op = "load_adapter" /\ last'.type # None
        /\ fs[last'.dir].config # NoFile
        /\ ConfigIn(last'.dir).type # last'.type)
       => /\ last'.exc = "AssertionError"
          /\ Len(last'.log) = 1
          /\ adapters' = adapters
          /\ heads' = heads
          /\ sd' = sd]_vars

\* a load bound to text_task was refused on a directory that holds the lang
\* adapter "ab", which the target does not have
C12_Witness ==
    /\ last.op = "load_adapter" /\ last.exc = "AssertionError"
    /\ last.type = text_task
    /\ fs[last.dir].config # NoFile /\ fs[last.dir].weights # NoFile
    /\ ConfigIn(last.dir).type = text_lang /\ ConfigIn(last.dir).name = "ab"
    /\ "ab" \notin DOMAIN adapters[last.model]
    /\ \A k \in AdapterKeys(text_lang, "ab") : k \notin DOMAIN sd[last.model]

\* C13: AdapterLoader.save and the facade save_adapter, called with a name
\* that is not in the model's adapter registry, fail (the facade with
\* ValueError), write no file and leave the model unchanged.
C13_SaveUnregistered ==
    [][(/\ last'.op \in {"save_adapter", "loader_save"}
        /\ last'.name \notin DOMAIN adapters[last'.model])
       => /\ last'.op = "save_adapter" => last'.exc = "ValueError" /\ last'.log = << >>
          /\ last'.op = "loader_save" => last'.exc = "AssertionError"
          /\ fs' = fs
          /\ adapters' = adapters
          /\ heads' = heads
          /\ sd' = sd]_vars

\* save_adapter with with_head was refused for the name "ab", which the model
\* knows as a head but not as an adapter, while it has the adapter "a"
C13_Witness ==
    /\ last.op = "save_adapter" /\ last.exc = "ValueError" /\ last.with_head
    /\ last.name = "ab"
    /\ DOMAIN adapters[last.model] = {"a"}
    /\ "ab" \in DOMAIN heads[last.model]
    /\ fs[last.dir] = EmptyDir

\* C14, as stated: on a model with a head registry that has no head named
\* like the adapter, save_adapter with with_head completes, writes the
\* adapter's config and weights and writes no head config or head weights;
\* load_adapter with with_head from a directory without head weights
\* completes, loads the adapter and leaves head registry and head parameters
\* unchanged.
C14_MissingHeadToleratedAsStated ==
    [][/\ (/\ last'.op = "save_adapter" /\ last'.with_head
           /\ HasHeadRegistry(cls[last'.model])
           /\ last'.name \in DOMAIN adapters[last'.model]
           /\ last'.name \notin DOMAIN heads[last'.model])
          => LET m == last'.model
                 n == last'.name
                 d == last'.dir
             IN  /\ last'.exc = None
                 /\ fs'[d].config = <<AdapterConfigDict(adapters[m][n], n)>>
                 /\ fs'[d].weights # NoFile
                 /\ fs'[d].head_config = fs[d].head_config
                 /\ fs'[d].head_weights = fs[d].head_weights
       /\ (/\ last'.op = "load_adapter" /\ last'.with_head
           /\ HasHeadRegistry(cls[last'.model])
           /\ fs[last'.dir].config # NoFile /\ fs[last'.dir].weights # NoFile
           /\ fs[last'.dir].head_weights = NoFile)
          => /\ last'.exc = None
             /\ EffectiveName(last'.name, last'.dir) \in DOMAIN adapters'[last'.model]
             /\ heads' = heads
             /\ \A m \in Models : \A k \in DOMAIN sd[m] :
                   ~StartsWith(k, base_model_prefix) => sd'[m][k] = sd[m][k]]_vars

\* the auxiliary loaders a save_adapter or load_adapter call of model m is
\* handed: the shared default list with the call's own loader appended
AuxiliaryLoadersOf(list, m, with_head) ==
    IF WithHeadsMixin(cls[m]) THEN WithHeadLoaders(list, m, with_head) ELSE << >>

\* C15: in save_adapter and load_adapter the AdapterLoader runs first; the
\* auxiliary loaders run only after it has succeeded, in list order, each
\* only after the one before it has returned, and on load with the directory
\* the AdapterLoader resolved; when the AdapterLoader fails no auxiliary
\* loader runs.
C15_AuxiliaryAfterPrimary ==
    [][(last'.op \in {"save_adapter", "load_adapter"} /\ last'.log # << >>)
       => LET log == last'.log
              aux == AuxiliaryLoadersOf(IF last'.op = "save_adapter" THEN saveLoaders
                                        ELSE loadLoaders, last'.model, last'.with_head)
          IN  /\ log[1].loader = "AdapterLoader" /\ log[1].model = last'.model
              /\ log[1].exc # None => Len(log) = 1 /\ last'.exc = log[1].exc
              /\ Len(log) <= 1 + Len(aux)
              /\ \A i \in 2..Len(log) :
                    /\ log[i].loader = "PredictionHeadLoader"
                    /\ log[i].model = aux[i - 1].model
                    /\ log[i - 1].exc = None
                    /\ last'.op = "load_adapter" => log[i].dir = log[1].ret[1]
                    /\ last'.op = "save_adapter" => log[i].dir = last'.dir
              /\ last'.exc = None => Len(log) = 1 + Len(aux)]_vars

\* a load_adapter of m2 ran the AdapterLoader and then the two head loaders of
\* the list, m1's before its own, on the directory the AdapterLoader returned
C15_Witness ==
    /\ last.op = "load_adapter" /\ last.exc = None /\ last.model = "m2"
    /\ Len(last.log) = 3
    /\ last.log[1].loader = "AdapterLoader" /\ last.log[1].ret[1] = last.dir
    /\ last.log[2].model = "m1" /\ last.log[3].model = "m2"
    /\ last.log[3].dir = last.dir
    /\ loadLoaders = <<NewHeadLoader("m1"), NewHeadLoader("m2")>>

\* C16, as stated: the weights file written by saving adapter N holds exactly
\* the parameters of adapter N, with the values the model has for them, and
\* no parameter of another adapter or of the base model.
C16_SaveIsolationAsStated ==
    [][(/\ last'.op \in {"save_adapter", "loader_save"}
        /\ last'.log # << >> /\ last'.log[1].exc = None)
       => LET m == last'.model
              n == last'.name
              saved == fs'[last'.dir].weights
          IN  /\ saved # NoFile
              /\ DOMAIN saved[1] = AdapterKeys(adapters[m][n].type, n)
              /\ \A k \in DOMAIN saved[1] : saved[1][k] = sd[m][k]]_vars

\* C17, as stated: a successful adapter load changes, on the target model,
\* only the registry entry and the parameters of the adapter with the
\* effective name; the base-model parameters and the registry entries and
\* parameters of every other adapter of the target are as before, and so is
\* every other model.
C17_LoadFrameAsStated ==
    [][(last'.op = "load_adapter" /\ last'.exc = None)
       => LET m == last'.model
              n == EffectiveName(last'.name, last'.dir)
              mine == AdapterKeys(adapters'[m][n].type, n)
          IN  /\ DOMAIN adapters'[m] = DOMAIN adapters[m] \cup {n}
              /\ \A o \in DOMAIN adapters[m] \ {n} : adapters'[m][o] = adapters[m][o]
              /\ DOMAIN sd'[m] \subseteq DOMAIN sd[m] \cup mine
              /\ \A k \in DOMAIN sd[m] \ mine : sd'[m][k] = sd[m][k]
              /\ \A o \in Models \ {m} : adapters'[o] = adapters[o] /\ sd'[o] = sd[o]]_vars

====
